---- MODULE Spec2Model ----
(***************************************************************************)
(* Model of src/app.py: the Streamlit weather monitor.  The state is the   *)
(* session state (weather_data, daily_summaries, alerts) together with the *)
(* position of the script run started by "Fetch Latest Weather Data":      *)
(* update_weather_data (one fetch per city, then one merge), then          *)
(* calculate_daily_summary, then check_alerts.                             *)
(*                                                                         *)
(* A reading carries the columns the three operations read: city, main,    *)
(* temp, humidity, wind_speed and dt.  description, feels_like and         *)
(* pressure are stored but never read by them and are left out.            *)
(* Temperatures, humidities and wind speeds are integers and means are     *)
(* exact fractions: floating-point rounding is not modelled.  Column       *)
(* values are never null.                                                  *)
(***************************************************************************)
EXTENDS Integers, Sequences, FiniteSets, TLC

VARIABLES weather_data, daily_summaries, alerts, thresholds, pc, idx, new_data, errors

vars == <<weather_data, daily_summaries, alerts, thresholds, pc, idx, new_data, errors>>

(***************************************************************************)
(* Bounds of the model.                                                    *)
(***************************************************************************)
\* timestamps are 1..MaxTime
MaxTime == 4
\* timestamps per calendar day
DayLen == 3
\* a new script run starts only while the store holds fewer rows than this
MaxRows == 3
\* a new script run starts only while the alert log is shorter than this
MaxAlerts == 4

(***************************************************************************)
(* Configuration.                                                          *)
(***************************************************************************)
\* two of the six configured metros, in the dict's iteration order
CITIES == <<"Mumbai", "Chennai">>

\* the order in which pandas' groupby (sort=True) lists the city keys
CityRank(c) == IF c = "Chennai" THEN 1 ELSE 2

\* defaults substituted for missing payload fields
DefaultMain == "Unknown"
DefaultNumber == 0

\* the calendar date of a timestamp (dt.date())
DateOf(dt) == (dt - 1) \div DayLen

Key(r) == <<r.city, r.dt>>

Range(s) == {s[i] : i \in 1..Len(s)}


(***************************************************************************)
(* pandas operations used by the code.                                     *)
(***************************************************************************)
\* pd.concat([a, b], ignore_index=True): the rows of a, then the rows of b
concat(a, b) == a \o b

\* drop_duplicates without subset: only rows equal in every column are dropped
drop_duplicates_all_columns(df) ==
  LET kept[n \in 0..Len(df)] ==
        IF n = 0 THEN <<>>
        ELSE IF \A j \in 1..(n - 1) : df[j] # df[n]
             THEN Append(kept[n - 1], df[n])
             ELSE kept[n - 1]
  IN kept[Len(df)]

\* drop_duplicates with keep='last': a row stays unless a later row has its key
drop_duplicates_keep_last(df) ==
  LET kept[n \in 0..Len(df)] ==
        IF n = 0 THEN <<>>
        ELSE IF \A j \in (n + 1)..Len(df) : Key(df[j]) # Key(df[n])
             THEN Append(kept[n - 1], df[n])
             ELSE kept[n - 1]
  IN kept[Len(df)]

\* drop_duplicates(subset=['city', 'dt']) with the default keep='first': a row
\* stays unless an earlier row has the same (city, dt)
drop_duplicates(df) ==
  LET kept[n \in 0..Len(df)] ==
        IF n = 0 THEN <<>>
        ELSE IF \A j \in 1..(n - 1) : Key(df[j]) # Key(df[n])
             THEN Append(kept[n - 1], df[n])
             ELSE kept[n - 1]
  IN kept[Len(df)]

\* the order of the group keys of groupby (sort=True): by date, then by city
KeyLE(a, b) == \/ a[1] < b[1]
               \/ a[1] = b[1] /\ CityRank(a[2]) <= CityRank(b[2])

RECURSIVE SortKeys(_)
\* a set of <<date, city>> group keys as a sequence, least first
SortKeys(S) ==
  IF S = {} THEN <<>>
  ELSE LET m == CHOOSE k \in S : \A j \in S : KeyLE(k, j)
       IN <<m>> \o SortKeys(S \ {m})

\* groupby('city').last().reset_index(): one row per city present, cities in
\* sorted order, each the last row of its group in frame order (with no null
\* column values, the last non-null value of every column is the last row's)
groupby_last(df) ==
  LET present == {df[i].city : i \in 1..Len(df)}
      keys == SortKeys({<<0, c>> : c \in present})
      order == [k \in 1..Len(keys) |-> keys[k][2]]
      lastOf(c) == df[CHOOSE i \in 1..Len(df) :
                        /\ df[i].city = c
                        /\ \A j \in (i + 1)..Len(df) : df[j].city # c]
  IN [k \in 1..Len(order) |-> lastOf(order[k])]

RECURSIVE SumSeq(_)
SumSeq(s) == IF s = <<>> THEN 0 ELSE Head(s) + SumSeq(Tail(s))

RECURSIVE GCD(_, _)
GCD(a, b) == IF b = 0 THEN a ELSE GCD(b, a % b)

\* the exact value n/d, in lowest terms
Frac(n, d) == LET g == GCD(n, d) IN [num |-> n \div g, den |-> d \div g]

\* the midpoint of the greatest and the least value instead of the mean
mean_midrange(col) ==
  LET hi == CHOOSE v \in Range(col) : \A w \in Range(col) : w <= v
      lo == CHOOSE v \in Range(col) : \A w \in Range(col) : v <= w
  IN Frac(hi + lo, 2)

\* Series.mean / max / min of a non-empty column
mean(col) == Frac(SumSeq(col), Len(col))
max(col) == CHOOSE v \in Range(col) : \A w \in Range(col) : w <= v
min(col) == CHOOSE v \in Range(col) : \A w \in Range(col) : v <= w

Count(col, v) == Cardinality({i \in 1..Len(col) : col[i] = v})

\* x.value_counts().index[0]: value_counts lists the distinct values by
\* descending count, so its first label is a value of greatest count.  The
\* order of equal counts is not specified by pandas (the counts are sorted
\* with the default, non-stable sort kind), so every value of greatest count
\* is a possible first label.
value_counts_index0(col) ==
  {v \in Range(col) : \A w \in Range(col) : Count(col, w) <= Count(col, v)}

(***************************************************************************)
(* calculate_daily_summary: the table it computes.                         *)
(***************************************************************************)
\* the groups of groupby([index.date, 'city'])
GroupKeys(df) == {<<DateOf(df[i].dt), df[i].city>> : i \in 1..Len(df)}

\* the rows of one group, in frame order
Group(df, k) == SelectSeq(df, LAMBDA r : DateOf(r.dt) = k[1] /\ r.city = k[2])

TempCol(rows) == [i \in 1..Len(rows) |-> rows[i].temp]
HumidityCol(rows) == [i \in 1..Len(rows) |-> rows[i].humidity]
WindCol(rows) == [i \in 1..Len(rows) |-> rows[i].wind_speed]
MainCol(rows) == [i \in 1..Len(rows) |-> rows[i].main]

\* the first labels value_counts may give, one per group
DominantChoices(df) ==
  {ch \in [GroupKeys(df) -> Range(MainCol(df))] :
     \A k \in GroupKeys(df) : ch[k] \in value_counts_index0(MainCol(Group(df, k)))}

\* the aggregated table: one row per group, groups in sorted key order
daily_summary(df, ch) ==
  LET keys == SortKeys(GroupKeys(df))
  IN [n \in 1..Len(keys) |->
        LET g == Group(df, keys[n])
        IN [date |-> keys[n][1],
            city |-> keys[n][2],
            avg_temp |-> mean(TempCol(g)),
            max_temp |-> max(TempCol(g)),
            min_temp |-> min(TempCol(g)),
            avg_humidity |-> mean(HumidityCol(g)),
            avg_wind_speed |-> mean(WindCol(g)),
            dominant_weather |-> ch[keys[n]]]]

(***************************************************************************)
(* check_alerts: the messages it appends.  A message is modelled by its    *)
(* kind, its city, the threshold and the value it prints.                  *)
(***************************************************************************)
Alert(kind, row, threshold, value) ==
  [kind |-> kind, city |-> row.city, threshold |-> threshold, value |-> value]

\* the temperature compared with >= instead of >
row_alerts_at_threshold(row, th) ==
  (IF row.temp >= th.temp
   THEN <<Alert("temp", row, th.temp, row.temp)>> ELSE <<>>)
  \o (IF row.humidity > th.humidity
      THEN <<Alert("humidity", row, th.humidity, row.humidity)>> ELSE <<>>)
  \o (IF row.wind_speed > th.wind_speed
      THEN <<Alert("wind_speed", row, th.wind_speed, row.wind_speed)>> ELSE <<>>)
  \o (IF row.main = th.condition
      THEN <<Alert("condition", row, th.condition, row.main)>> ELSE <<>>)

\* the body of the loop over latest_data for one row
row_alerts(row, th) ==
  (IF row.temp > th.temp
   THEN <<Alert("temp", row, th.temp, row.temp)>> ELSE <<>>)
  \o (IF row.humidity > th.humidity
      THEN <<Alert("humidity", row, th.humidity, row.humidity)>> ELSE <<>>)
  \o (IF row.wind_speed > th.wind_speed
      THEN <<Alert("wind_speed", row, th.wind_speed, row.wind_speed)>> ELSE <<>>)
  \o (IF row.main = th.condition
      THEN <<Alert("condition", row, th.condition, row.main)>> ELSE <<>>)

RECURSIVE new_alerts(_, _)
\* the messages of the whole loop over latest_data, in row order
new_alerts(latest, th) ==
  IF latest = <<>> THEN <<>>
  ELSE row_alerts(Head(latest), th) \o new_alerts(Tail(latest), th)

(***************************************************************************)
(* The environment: what the weather provider may answer for each city and *)
(* what the sidebar widgets may hold when the button is clicked.  An       *)
(* answer served from st.cache_data within its ttl is the earlier answer   *)
(* again (the same reading with the same dt, or None with its st.error     *)
(* replayed), which the provider may give anyway.                          *)
(***************************************************************************)
Reading(city, main, temp, humidity, wind_speed, dt) ==
  [city |-> city, main |-> main, temp |-> temp, humidity |-> humidity,
   wind_speed |-> wind_speed, dt |-> dt]

\* thresholds no modelled reading exceeds: the widgets' maxima
QuietThresholds == [temp |-> 50, humidity |-> 100, wind_speed |-> 50, condition |-> "Snow"]
\* the widgets' default values
DefaultThresholds == [temp |-> 35, humidity |-> 80, wind_speed |-> 10, condition |-> "Rain"]

\* Store claims: two temperatures (so that a dropped duplicate differs from
\* the row kept) at timestamps in any order, every timestamp for the first
\* city and the first and the last for the second; defaults elsewhere
StoreEnv ==
  [readings |-> [c \in Range(CITIES) |->
      {Reading(c, DefaultMain, t, DefaultNumber, DefaultNumber, dt) :
         t \in {30, 40},
         dt \in (IF c = CITIES[1] THEN 1..MaxTime ELSE {1, MaxTime})}],
   request_errors |-> Range(CITIES),
   malformed |-> Range(CITIES),
   thresholds |-> {QuietThresholds}]

\* Alert claims: for the first city every combination of a value at its
\* default threshold or just above it, with a watched or an unwatched
\* condition; for the second city a reading of defaults and one above all
\* thresholds
AlertEnv ==
  [readings |-> [c \in Range(CITIES) |->
      IF c = CITIES[1]
      THEN {Reading(c, m, t, h, w, dt) :
              m \in {"Rain", "Clear"}, t \in {35, 36}, h \in {80, 81},
              w \in {10, 11}, dt \in {1}}
      ELSE {Reading(c, DefaultMain, DefaultNumber, DefaultNumber, DefaultNumber, 1),
            Reading(c, "Rain", 40, 90, 20, MaxTime)}],
   request_errors |-> Range(CITIES),
   malformed |-> {CITIES[1]},
   thresholds |-> {DefaultThresholds,
                   [temp |-> 36, humidity |-> 80, wind_speed |-> 11, condition |-> "Clear"]}]

\* Aggregation claims: for the first city two temperatures and two
\* conditions at three timestamps of the first day and at the last
\* timestamp; for the second city one reading
AggEnv ==
  [readings |-> [c \in Range(CITIES) |->
      IF c = CITIES[1]
      THEN {Reading(c, m, t, 60, 5, dt) :
              m \in {"Rain", "Clouds"}, t \in {30, 40}, dt \in {1, 2, 3, MaxTime}}
      ELSE {Reading(c, "Clear", 30, 70, 3, MaxTime)}],
   request_errors |-> Range(CITIES),
   malformed |-> {CITIES[1]},
   thresholds |-> {QuietThresholds}]

(***************************************************************************)
(* Init: the session state created at lines 51-56, no script run started.  *)
(***************************************************************************)
Init ==
  /\ weather_data = <<>>
  /\ daily_summaries = <<>>
  /\ alerts = <<>>
  /\ thresholds = DefaultThresholds
  /\ pc = "idle"
  /\ idx = 1
  /\ new_data = <<>>
  /\ errors = <<>>

(***************************************************************************)
(* main: the button is clicked and a script run starts with the widgets'   *)
(* current values.                                                         *)
(***************************************************************************)
Click(env) ==
  /\ pc \in {"idle", "done", "raised"}
  /\ Len(weather_data) < MaxRows
  /\ Len(alerts) < MaxAlerts
  /\ thresholds' \in env.thresholds
  /\ pc' = "fetch"
  /\ idx' = 1
  /\ new_data' = <<>>
  /\ errors' = <<>>
  /\ UNCHANGED <<weather_data, daily_summaries, alerts>>

\* the loop of update_weather_data moves to the next city, or to the merge
NextCity ==
  /\ idx' = idx + 1
  /\ pc' = IF idx = Len(CITIES) THEN "merge" ELSE "fetch"

\* fetch_weather_data returns a reading; update_weather_data appends it
FetchReading(env) ==
  /\ pc = "fetch"
  /\ \E r \in env.readings[CITIES[idx]] : new_data' = Append(new_data, r)
  /\ NextCity
  /\ UNCHANGED <<weather_data, daily_summaries, alerts, thresholds, errors>>

\* requests raises RequestException: st.error names the city, None is
\* returned and update_weather_data skips the city
FetchRequestException(env) ==
  /\ pc = "fetch"
  /\ CITIES[idx] \in env.request_errors
  /\ errors' = Append(errors, CITIES[idx])
  /\ NextCity
  /\ UNCHANGED <<weather_data, daily_summaries, alerts, thresholds, new_data>>

\* the payload makes lines 68-82 raise an exception that is no
\* RequestException ("weather": [] raises IndexError, "main": null raises
\* AttributeError, a non-numeric "dt" raises TypeError): nothing catches it
\* and the script run ends
FetchUncaughtError(env) ==
  /\ pc = "fetch"
  /\ CITIES[idx] \in env.malformed
  /\ pc' = "raised"
  /\ UNCHANGED <<weather_data, daily_summaries, alerts, thresholds, idx, new_data, errors>>

\* the store assigned the new batch instead of the concatenation
merge_overwrite(store, batch) ==
  IF batch = <<>> THEN store ELSE drop_duplicates(batch)

\* lines 95-99 of update_weather_data
merge(store, batch) ==
  IF batch = <<>> THEN store ELSE drop_duplicates(concat(store, batch))

Merge ==
  /\ pc = "merge"
  /\ weather_data' = merge(weather_data, new_data)
  /\ pc' = "summary"
  /\ UNCHANGED <<daily_summaries, alerts, thresholds, idx, new_data, errors>>

\* calculate_daily_summary without its empty-store return: set_index('dt')
\* on the column-less empty frame raises KeyError
calculate_daily_summary_unguarded ==
  /\ pc = "summary"
  /\ IF weather_data = <<>>
     THEN /\ daily_summaries' = daily_summaries
          /\ pc' = "raised"
     ELSE /\ \E ch \in DominantChoices(weather_data) :
               daily_summaries' = daily_summary(weather_data, ch)
          /\ pc' = "alerts"
  /\ UNCHANGED <<weather_data, alerts, thresholds, idx, new_data, errors>>

calculate_daily_summary ==
  /\ pc = "summary"
  /\ IF weather_data = <<>>
     THEN daily_summaries' = daily_summaries
     ELSE \E ch \in DominantChoices(weather_data) :
            daily_summaries' = daily_summary(weather_data, ch)
  /\ pc' = "alerts"
  /\ UNCHANGED <<weather_data, alerts, thresholds, idx, new_data, errors>>

\* check_alerts, after which the script run is over and its locals are gone
check_alerts ==
  /\ pc = "alerts"
  /\ alerts' = IF weather_data = <<>>
               THEN alerts
               ELSE alerts \o new_alerts(groupby_last(weather_data), thresholds)
  /\ pc' = "done"
  /\ idx' = 1
  /\ new_data' = <<>>
  /\ UNCHANGED <<weather_data, daily_summaries, thresholds, errors>>

Step(env) ==
  \/ Click(env)
  \/ FetchReading(env)
  \/ FetchRequestException(env)
  \/ FetchUncaughtError(env)
  \/ Merge
  \/ calculate_daily_summary
  \/ check_alerts

Next == Step(StoreEnv)

Spec == Init /\ [][Next]_vars

NextAlerts == Step(AlertEnv)

SpecAlerts == Init /\ [][NextAlerts]_vars

NextAgg == Step(AggEnv)

SpecAgg == Init /\ [][NextAgg]_vars

(***************************************************************************)
(* Properties of the observation store and of the refresh cycle (Spec).    *)
(***************************************************************************)
Keys(df) == {Key(df[i]) : i \in 1..Len(df)}

\* C1: in every reachable state no two entries of the store have the same
\* (city, observed_at) pair.
C1_UniqueCityObservedAt ==
  \A i, j \in 1..Len(weather_data) :
    Key(weather_data[i]) = Key(weather_data[j]) => i = j

\* a merge has just dropped a fetched reading whose (city, dt) was already
\* stored with another temperature
C1_DuplicateInstantFetched ==
  /\ pc = "summary"
  /\ \E n \in 1..Len(new_data) : \E i \in 1..Len(weather_data) :
       /\ Key(weather_data[i]) = Key(new_data[n])
       /\ weather_data[i].temp # new_data[n].temp

\* C2: a provider failure for one city is isolated: no provider error ends
\* the cycle, and when the fetches are over every city is either recorded as
\* a failure or has its reading in the merged store.
C2_ProviderFailureIsolated ==
  /\ pc # "raised"
  /\ pc = "summary" =>
       /\ Len(new_data) + Len(errors) = Len(CITIES)
       /\ \A c \in Range(CITIES) :
            \/ c \in Range(errors)
            \/ \E n \in 1..Len(new_data) :
                 new_data[n].city = c /\ Key(new_data[n]) \in Keys(weather_data)

\* C3: the per-city latest view holds exactly one entry for each city with a
\* stored observation, none for other cities, and that entry is the stored
\* observation of the city with the greatest observed_at, whatever the order
\* of insertion.
C3_LatestIsGreatestObservedAt ==
  LET latest == groupby_last(weather_data)
  IN /\ \A c \in Range(CITIES) :
          Cardinality({k \in 1..Len(latest) : latest[k].city = c})
            = IF \E i \in 1..Len(weather_data) : weather_data[i].city = c
              THEN 1 ELSE 0
     /\ \A k \in 1..Len(latest) :
          /\ latest[k] \in Range(weather_data)
          /\ \A i \in 1..Len(weather_data) :
               weather_data[i].city = latest[k].city
                 => weather_data[i].dt <= latest[k].dt

\* C5: within every refresh cycle the provider is called once for every
\* configured city before anything else happens (each fetch is followed by
\* the next city's fetch or, after the last city, by the merge), the store
\* is modified by the merge step alone, and the merge is followed by the
\* recomputation of the summaries and then by the evaluation of the alerts.
C5_CycleOrder ==
  [][/\ pc = "fetch" =>
          /\ idx' = idx + 1
          /\ pc' = IF idx = Len(CITIES) THEN "merge" ELSE "fetch"
     /\ pc = "merge" => idx = Len(CITIES) + 1 /\ pc' = "summary"
     /\ pc = "summary" => pc' = "alerts"
     /\ pc = "alerts" => pc' = "done"
     /\ pc # "merge" => weather_data' = weather_data]_vars

\* C6: a merge appends, once and in batch order, exactly the readings whose
\* (city, observed_at) pair is not yet stored; a batch of pairs that are all
\* stored leaves the store unchanged.
C6_AddIdempotent ==
  [][pc = "merge" =>
       LET fresh == SelectSeq(new_data, LAMBDA r : Key(r) \notin Keys(weather_data))
       IN /\ weather_data' = weather_data \o fresh
          /\ Keys(new_data) \subseteq Keys(weather_data) => weather_data' = weather_data]_vars

\* a merge of a full batch has just added nothing: every reading of the
\* batch differs from the row stored under its (city, dt)
C6_WholeBatchAlreadyStored ==
  /\ pc = "summary"
  /\ Len(new_data) = Len(CITIES)
  /\ \A n \in 1..Len(new_data) :
       /\ Key(new_data[n]) \in Keys(weather_data)
       /\ new_data[n] \notin Range(weather_data)

\* C9: on an empty store calculate_daily_summary and check_alerts raise no
\* error (the script run goes on) and leave the summaries and the alert log
\* as they were.
C9_EmptyStoreNoOp ==
  [][/\ pc = "summary" /\ weather_data = <<>> =>
          /\ pc' = "alerts"
          /\ UNCHANGED <<daily_summaries, alerts, weather_data>>
     /\ pc = "alerts" /\ weather_data = <<>> =>
          /\ pc' = "done"
          /\ UNCHANGED <<daily_summaries, alerts, weather_data>>]_vars

\* a script run has ended after every fetch failed on an empty store
C9_RunEndedOnEmptyStore ==
  /\ pc = "done"
  /\ weather_data = <<>>
  /\ Len(errors) = Len(CITIES)

\* C10: the store is append-only: every step leaves the stored observations
\* as they were, at their positions, and the store never shrinks.
C10_AppendOnly ==
  [][/\ Len(weather_data') >= Len(weather_data)
     /\ \A i \in 1..Len(weather_data) : weather_data'[i] = weather_data[i]]_vars

\* a merge has just met a duplicate of the first stored row carrying another
\* temperature, and has also appended a new row
C10_DuplicateOfFirstRowArrived ==
  /\ pc = "summary"
  /\ Len(weather_data) >= 2
  /\ \E n \in 1..Len(new_data) :
       /\ Key(new_data[n]) = Key(weather_data[1])
       /\ new_data[n] # weather_data[1]
  /\ weather_data[Len(weather_data)] \in Range(new_data)

(***************************************************************************)
(* Properties of check_alerts (SpecAlerts).                                *)
(***************************************************************************)
AlertKinds == {"temp", "humidity", "wind_speed", "condition"}

\* whether the claim has a row raise an alert of a kind
AlertDue(kind, row, th) ==
  CASE kind = "temp" -> row.temp > th.temp
    [] kind = "humidity" -> row.humidity > th.humidity
    [] kind = "wind_speed" -> row.wind_speed > th.wind_speed
    [] kind = "condition" -> row.main = th.condition

\* C4: on a non-empty store check_alerts leaves the alert log's entries as
\* they were and appends, for each city of the latest view, one alert of a
\* kind iff the city's latest value is strictly above that kind's threshold
\* (for the condition: equal to the watched condition), and nothing else.
C4_EvaluateAppends ==
  [][pc = "alerts" /\ weather_data # <<>> =>
       LET latest == groupby_last(weather_data)
           old == Len(alerts)
           added == [i \in 1..(Len(alerts') - old) |-> alerts'[old + i]]
       IN /\ Len(alerts') >= old
          /\ \A i \in 1..old : alerts'[i] = alerts[i]
          /\ \A k \in 1..Len(latest) : \A kind \in AlertKinds :
               Cardinality({i \in DOMAIN added :
                              added[i].kind = kind /\ added[i].city = latest[k].city})
                 = IF AlertDue(kind, latest[k], thresholds) THEN 1 ELSE 0
          /\ \A i \in DOMAIN added :
               /\ added[i].kind \in AlertKinds
               /\ \E k \in 1..Len(latest) : latest[k].city = added[i].city]_vars

\* an evaluation has just appended to a non-empty log, for a city whose
\* temperature equals the threshold while its humidity exceeds its own, and
\* for another city that raised all four alerts
C4_AppendedAtThreshold ==
  LET latest == groupby_last(weather_data)
      now == new_alerts(latest, thresholds)
  IN /\ pc = "done"
     /\ Len(alerts) > Len(now)
     /\ \E k \in 1..Len(latest) :
          /\ latest[k].temp = thresholds.temp
          /\ latest[k].humidity > thresholds.humidity
     /\ \E k \in 1..Len(latest) :
          \A kind \in AlertKinds : AlertDue(kind, latest[k], thresholds)

(***************************************************************************)
(* Properties of calculate_daily_summary (SpecAgg).                        *)
(***************************************************************************)
\* the stored observations of a city on a date, by position
ObsOf(df, d, c) == {i \in 1..Len(df) : DateOf(df[i].dt) = d /\ df[i].city = c}

RECURSIVE TempSum(_, _)
TempSum(df, S) ==
  IF S = {} THEN 0
  ELSE LET i == CHOOSE j \in S : TRUE IN df[i].temp + TempSum(df, S \ {i})

\* the condition of greatest count whose first occurrence comes earliest
FirstSeenMode(col) ==
  col[CHOOSE i \in 1..Len(col) :
        /\ \A j \in 1..Len(col) : Count(col, col[j]) <= Count(col, col[i])
        /\ \A j \in 1..(i - 1) : Count(col, col[j]) < Count(col, col[i])]

C8_RecomputeRows ==
  [][pc = "summary" /\ weather_data # <<>> =>
       LET tab == daily_summaries'
       IN /\ \A d \in 0..DateOf(MaxTime) : \A c \in Range(CITIES) :
               Cardinality({n \in 1..Len(tab) : tab[n].date = d /\ tab[n].city = c})
                 = IF ObsOf(weather_data, d, c) # {} THEN 1 ELSE 0
          /\ \A n \in 1..Len(tab) :
               LET row == tab[n]
                   obs == ObsOf(weather_data, row.date, row.city)
                   avg == row.avg_temp
               IN /\ obs # {}
                  /\ \A i \in obs : /\ weather_data[i].temp <= row.max_temp
                                    /\ weather_data[i].temp >= row.min_temp
                  /\ \E i \in obs : weather_data[i].temp = row.max_temp
                  /\ \E i \in obs : weather_data[i].temp = row.min_temp
                  /\ avg.den > 0
                  /\ avg.num * Cardinality(obs) = TempSum(weather_data, obs) * avg.den
                  /\ row.min_temp * avg.den <= avg.num
                  /\ avg.num <= row.max_temp * avg.den
                  /\ Cardinality(obs) = 1 =>
                       \A i \in obs : /\ avg.num = weather_data[i].temp * avg.den
                                      /\ row.max_temp = weather_data[i].temp
                                      /\ row.min_temp = weather_data[i].temp]_vars

\* the summaries have just been recomputed over two dates: one partition of
\* three observations with its mean strictly between a different least and
\* greatest temperature and off their midpoint, and one of a single
\* observation
C8_ThreeAndOneObservation ==
  /\ pc = "alerts"
  /\ \E n, m \in 1..Len(daily_summaries) :
       LET a == daily_summaries[n]
           b == daily_summaries[m]
       IN /\ a.date # b.date
          /\ Cardinality(ObsOf(weather_data, a.date, a.city)) = 3
          /\ a.min_temp * a.avg_temp.den < a.avg_temp.num
          /\ a.avg_temp.num < a.max_temp * a.avg_temp.den
          /\ 2 * a.avg_temp.num # (a.min_temp + a.max_temp) * a.avg_temp.den
          /\ Cardinality(ObsOf(weather_data, b.date, b.city)) = 1
====
